---- MODULE Spec2Model ----
(***************************************************************************)
(* State-machine model of translatable.rs: the translation loader with its *)
(* OnceLock cache, the resolvers built on it, the node collection and the  *)
(* placeholder substitution chain.                                         *)
(*                                                                         *)
(* The repository holds two generations of the loader and resolver:        *)
(*   "legacy": src/src/translations.rs (raw toml tables, Option results)   *)
(*   "proc"  : src/translatable_proc (TranslationNode, typed errors)       *)
(* Each has a TRANSLATIONS static of its own; the variable `crate` says    *)
(* which of the two is the one that is built and running.                  *)
(*                                                                         *)
(* Every Rust string is a sequence of one-character strings, so that       *)
(* split, replace, to_lowercase and the brace count act on characters.     *)
(***************************************************************************)
EXTENDS Integers, Sequences, FiniteSets, TLC

VARIABLES
    fs,            \* the translations directory: file name -> file content
    config,        \* the loaded TranslatableConfig: seek_mode, overlap
    crate,         \* "legacy" or "proc": which crate is running
    TRANSLATIONS,  \* the OnceLock cell of the running crate
    pc,            \* per caller: position inside load_translations
    local,         \* per caller: translation_paths, iterator index, collected Vec
    ret,           \* per caller: what load_translations returned
    loads,         \* history: how many calls passed the get() check and began the load work
    inits,         \* history: how many times the cell was written
    collection,    \* a TranslationNodeCollection (HashMap plus its iteration order)
    outcome,       \* the result of the last resolver / find_path call
    template,      \* the translation string handed to the replace chain
    format_kwargs, \* the bindings of the call: placeholder name -> displayed value
    pending,       \* the bindings whose replaces have not run yet
    rendered       \* the string as the replaces so far have left it

loaderVars == <<fs, config, crate, TRANSLATIONS, pc, local, ret, loads, inits,
                collection, outcome>>
substVars == <<template, format_kwargs, pending, rendered>>
vars == <<loaderVars, substVars>>

(***************************************************************************)
(* Bounds                                                                  *)
(***************************************************************************)
MaxFiles == 2
NumCallers == 2
MaxTokens == 3

Callers == 1..NumCallers

None == [kind |-> "None"]

(***************************************************************************)
(* Strings                                                                 *)
(***************************************************************************)
RECURSIVE Concat(_)
Concat(ss) == IF ss = <<>> THEN <<>> ELSE Head(ss) \o Concat(Tail(ss))

Reverse(s) == [i \in 1..Len(s) |-> s[Len(s) + 1 - i]]

\* char::to_lowercase on the letters that occur in file names
LowerChar(ch) ==
    CASE ch = "A" -> "a" [] ch = "B" -> "b" [] ch = "C" -> "c" [] ch = "D" -> "d"
      [] OTHER -> ch

to_lowercase(s) == [i \in 1..Len(s) |-> LowerChar(s[i])]

\* byte order of the characters used in names and keys
CharRank(ch) ==
    CASE ch = "." -> 1
      [] ch = "A" -> 2 [] ch = "B" -> 3 [] ch = "C" -> 4 [] ch = "D" -> 5
      [] ch = "a" -> 6 [] ch = "b" -> 7 [] ch = "c" -> 8 [] ch = "d" -> 9
      [] ch = "e" -> 10 [] ch = "n" -> 11 [] ch = "s" -> 12 [] ch = "x" -> 13
      [] OTHER -> 14

\* str's Ord: lexicographic by byte
RECURSIVE StrLess(_, _)
StrLess(a, b) ==
    IF b = <<>> THEN FALSE
    ELSE IF a = <<>> THEN TRUE
    ELSE IF CharRank(Head(a)) # CharRank(Head(b))
         THEN CharRank(Head(a)) < CharRank(Head(b))
         ELSE StrLess(Tail(a), Tail(b))

\* str::contains
contains(s, pat) ==
    \E i \in 1..(Len(s) + 1) :
        /\ i + Len(pat) - 1 <= Len(s)
        /\ SubSeq(s, i, i + Len(pat) - 1) = pat

\* str::split('.'): the segments between the dots, empty ones included
RECURSIVE split(_)
split(s) ==
    IF \A i \in 1..Len(s) : s[i] # "."
    THEN <<s>>
    ELSE LET d == CHOOSE i \in 1..Len(s) :
                      s[i] = "." /\ \A j \in 1..(i - 1) : s[j] # "."
         IN  <<SubSeq(s, 1, d - 1)>> \o split(SubSeq(s, d + 1, Len(s)))

(***************************************************************************)
(* Language registry (Iso639a / Language).  The enum itself is not among   *)
(* the sources; the registry is the closed set of codes it enumerates.     *)
(***************************************************************************)
es == <<"e", "s">>
en == <<"e", "n">>
Langs == {es, en}

is_valid(code) == code \in Langs

\* the codes a caller may pass: the valid ones, and two invalid ones
Codes == Langs \cup {<<"x", "x">>, <<"e">>}

(***************************************************************************)
(* toml::Value and toml::Table                                             *)
(***************************************************************************)
Str(s) == [kind |-> "String", s |-> s]
Tab(t) == [kind |-> "Table", t |-> t]
Integer == [kind |-> "Integer"]

EmptyTable == [k \in {} |-> None]
T1(k, v) == [x \in {k} |-> v]
T2(k1, v1, k2, v2) == [x \in {k1, k2} |-> IF x = k1 THEN v1 ELSE v2]

\* Table::get
get(table, key) == IF key \in DOMAIN table THEN table[key] ELSE None

\* Value::as_table
as_table(value) == IF value.kind = "Table" THEN [kind |-> "Some", t |-> value.t] ELSE None

\* the keys of a table in the order its iterator yields them (BTreeMap: ascending)
RECURSIVE KeySeq(_)
KeySeq(S) ==
    IF S = {} THEN <<>>
    ELSE LET m == CHOOSE k \in S : \A o \in S \ {k} : StrLess(k, o)
         IN  <<m>> \o KeySeq(S \ {m})

\* the fold of lines 111-115: '{' counts +1, '}' counts -1
RECURSIVE balance(_)
balance(s) ==
    IF s = <<>> THEN 0
    ELSE (CASE Head(s) = "{" -> 1 [] Head(s) = "}" -> -1 [] OTHER -> 0)
         + balance(Tail(s))

\* translations_valid: one pass over the entries with the two flags
RECURSIVE translations_valid(_)
RECURSIVE valid_scan(_, _, _, _)
RECURSIVE valid_scan_one_flag(_, _, _, _)

\* faulty variant: a scan that notices a table after a string, and not a string
\* after a table
valid_scan_one_flag(table, keys, contains_translation, contains_table) ==
    IF keys = <<>> THEN TRUE
    ELSE LET key == Head(keys)
             raw == table[key]
         IN  CASE raw.kind = "Table" ->
                    IF contains_translation \/ ~translations_valid(raw.t)
                    THEN FALSE
                    ELSE valid_scan_one_flag(table, Tail(keys), contains_translation, TRUE)
               [] raw.kind = "String" ->
                    IF ~is_valid(key)
                    THEN FALSE
                    ELSE IF balance(raw.s) # 0
                    THEN FALSE
                    ELSE valid_scan_one_flag(table, Tail(keys), TRUE, contains_table)
               [] OTHER -> FALSE

valid_scan(table, keys, contains_translation, contains_table) ==
    IF keys = <<>> THEN TRUE
    ELSE LET key == Head(keys)
             raw == table[key]
         IN  CASE raw.kind = "Table" ->
                    IF contains_translation \/ ~translations_valid(raw.t)
                    THEN FALSE
                    ELSE valid_scan(table, Tail(keys), contains_translation, TRUE)
               [] raw.kind = "String" ->
                    IF contains_table \/ ~is_valid(key)
                    THEN FALSE
                    ELSE IF balance(raw.s) # 0
                    THEN FALSE
                    ELSE valid_scan(table, Tail(keys), TRUE, contains_table)
               [] OTHER -> FALSE

translations_valid(table) ==
    valid_scan(table, KeySeq(DOMAIN table), FALSE, FALSE)

(***************************************************************************)
(* TranslationNode (translatable_shared, node.rs is not among the sources: *)
(* construction and path walk follow sections 4.2 and 4.3 of the spec)     *)
(***************************************************************************)
Nesting(children) == [kind |-> "Nesting", children |-> children]
Translation(object) == [kind |-> "Translation", object |-> object]
NodeErr(why) == [kind |-> "Err", why |-> why]

RECURSIVE TranslationNode_try_from(_)
TranslationNode_try_from(table) ==
    LET keys == DOMAIN table
        tables == {k \in keys : table[k].kind = "Table"}
        strings == {k \in keys : table[k].kind = "String"}
    IN  IF keys # tables \cup strings THEN NodeErr("InvalidValue")
        ELSE IF tables # {} /\ strings # {} THEN NodeErr("MixedNodeKinds")
        ELSE IF strings # {}
        THEN IF \E k \in strings : ~is_valid(k) THEN NodeErr("InvalidLanguageCode")
             ELSE IF \E k \in strings : balance(table[k].s) # 0
             THEN NodeErr("UnbalancedTemplate")
             ELSE Translation([k \in strings |-> table[k].s])
        ELSE LET sub == [k \in tables |-> TranslationNode_try_from(table[k].t)]
             IN  IF \E k \in tables : sub[k].kind = "Err"
                 THEN sub[CHOOSE k \in tables : sub[k].kind = "Err"]
                 ELSE Nesting(sub)

\* TranslationNode::get_path / find_path: Some(object) only when the segments
\* end exactly on a Translation
RECURSIVE get_path(_, _)
get_path(node, segments) ==
    IF segments = <<>>
    THEN IF node.kind = "Translation" THEN [kind |-> "Some", object |-> node.object]
         ELSE None
    ELSE IF node.kind = "Nesting" /\ Head(segments) \in DOMAIN node.children
         THEN get_path(node.children[Head(segments)], Tail(segments))
         ELSE None

(***************************************************************************)
(* The translations directory                                              *)
(***************************************************************************)
\* template strings stored in the files
Hola == <<"h">>
Hello == <<"w">>
Buenas == <<"{", "n", "}">>
Hi == <<"{", "{", "n", "}", "}">>
Deep == <<"d">>

KeyA == <<"a">>
KeyB == <<"b">>

Unreadable == [kind |-> "unreadable"]
Garbage == [kind |-> "garbage"]
Toml(table) == [kind |-> "toml", table |-> table]

FileContents ==
    { Unreadable,
      Garbage,
      Toml(EmptyTable),
      Toml(T1(KeyA, Tab(T1(es, Str(Hola))))),
      Toml(T1(KeyA, Tab(T1(en, Str(Hello))))),
      Toml(T1(KeyA, Tab(T2(es, Str(Buenas), en, Str(Hi))))),
      Toml(T1(KeyB, Tab(T1(KeyA, Tab(T1(en, Str(Deep))))))),
      Toml(T1(KeyA, Tab(T2(es, Str(Hola), KeyB, Tab(EmptyTable))))) }

NameUniverse == << <<"B">>, <<"a">>, <<"C">>, <<"d">> >>
FileNames == {NameUniverse[i] : i \in 1..MaxFiles}

SeekModes == {"Alphabetical", "Unalphabetical"}
Overlaps == {"Overwrite", "Ignore"}
Configs == [seek_mode : SeekModes, overlap : Overlaps]

(***************************************************************************)
(* load_translations                                                       *)
(***************************************************************************)
Perms(S) == {p \in [1..Cardinality(S) -> S] : \A x \in S : \E i \in DOMAIN p : p[i] = x}

\* walk_dir: every file under the root, in whatever order read_dir yields them
walk_dir == Perms(DOMAIN fs)

\* slice::sort_by_key(|path| path.to_lowercase()): stable insertion by the lowered key
RECURSIVE sort_by_key(_)
insert_by_key(sorted, x) ==
    LET later == {i \in 1..Len(sorted) : StrLess(to_lowercase(x), to_lowercase(sorted[i]))}
        at == IF later = {} THEN Len(sorted) + 1
              ELSE CHOOSE i \in later : \A j \in later : i <= j
    IN  SubSeq(sorted, 1, at - 1) \o <<x>> \o SubSeq(sorted, at, Len(sorted))
sort_by_key(paths) ==
    IF paths = <<>> THEN <<>>
    ELSE insert_by_key(sort_by_key(SubSeq(paths, 1, Len(paths) - 1)), paths[Len(paths)])

\* lines 141-144 / 67-70: the seek order
seek_order(walked, cfg) ==
    IF cfg.seek_mode = "Unalphabetical"
    THEN Reverse(sort_by_key(walked))
    ELSE sort_by_key(walked)

Ok(value) == [kind |-> "Ok", value |-> value]
Err(error, path) == [kind |-> "Err", error |-> error, path |-> path]

\* faulty variant: a best-effort load that passes over the files it cannot use
load_file_best_effort(path) ==
    LET content == fs[path]
        usable == /\ content.kind = "toml"
                  /\ IF crate = "legacy" THEN translations_valid(content.table)
                     ELSE TranslationNode_try_from(content.table).kind # "Err"
        table == IF usable THEN content.table ELSE EmptyTable
    IN  IF crate = "legacy" THEN Ok(table)
        ELSE Ok([original_path |-> path,
                 translation_table |-> TranslationNode_try_from(table)])

\* the closure mapped over translation_paths: read, parse, validate one file
load_file(path) ==
    LET content == fs[path]
    IN  IF content.kind = "unreadable" THEN Err("Io", path)
        ELSE IF content.kind = "garbage" THEN Err("ParseToml", path)
        ELSE IF crate = "legacy"
        THEN IF ~translations_valid(content.table)
             THEN Err("InvalidTomlFormat", path)
             ELSE Ok(content.table)
        ELSE LET node == TranslationNode_try_from(content.table)
             IN  IF node.kind = "Err"
                 THEN Err("InvalidTomlFormat", path)
                 ELSE Ok([original_path |-> path, translation_table |-> node])

\* lines 88-91 of the proc crate: the overlap policy baked into the order
apply_overlap(translations, cfg) ==
    IF crate = "proc" /\ cfg.overlap = "Overwrite"
    THEN Reverse(translations)
    ELSE translations

\* faulty variant: a cache check that never sees the stored value
OnceLock_get_unseen(cell) == None

\* OnceLock::get: what the cell holds, None while it is empty
OnceLock_get(cell) == cell

\* faulty variant: a plain store, as with a cell that is set rather than initialised once
get_or_init_overwriting(cell, value) == value

\* OnceLock::get_or_init: the closure runs only when the cell is empty
get_or_init(cell, value) == IF cell = None THEN value ELSE cell

\* the Vec a call has built, as a heap object: `owner` is the call that allocated it
Vec(owner, items) == [kind |-> "Vec", owner |-> owner, items |-> items]

NoLocal == [paths |-> <<>>, idx |-> 0, acc |-> <<>>]

\* lines 133-144: the cache check, then load_config, walk_dir and the sort
Call(c) ==
    /\ pc[c] = "idle"
    /\ IF OnceLock_get(TRANSLATIONS) # None
       THEN /\ pc' = [pc EXCEPT ![c] = "done"]
            /\ ret' = [ret EXCEPT ![c] = Ok(OnceLock_get(TRANSLATIONS))]
            /\ UNCHANGED <<local, loads>>
       ELSE /\ \E walked \in walk_dir :
                   local' = [local EXCEPT ![c] =
                                [paths |-> seek_order(walked, config), idx |-> 1, acc |-> <<>>]]
            /\ pc' = [pc EXCEPT ![c] = "load"]
            /\ loads' = loads + 1
            /\ UNCHANGED ret
    /\ UNCHANGED <<fs, config, crate, TRANSLATIONS, inits, collection, outcome, substVars>>

\* one turn of the map/collect iterator: collect stops at the first Err, and `?` returns it
ReadFile(c) ==
    /\ pc[c] = "load"
    /\ local[c].idx <= Len(local[c].paths)
    /\ LET r == load_file(local[c].paths[local[c].idx])
       IN  IF r.kind = "Err"
           THEN /\ pc' = [pc EXCEPT ![c] = "done"]
                /\ ret' = [ret EXCEPT ![c] = r]
                /\ local' = [local EXCEPT ![c] = NoLocal]
           ELSE /\ local' = [local EXCEPT ![c].idx = @ + 1,
                                          ![c].acc = Append(@, r.value)]
                /\ UNCHANGED <<pc, ret>>
    /\ UNCHANGED <<fs, config, crate, TRANSLATIONS, loads, inits, collection, outcome, substVars>>

\* line 162 / lines 88-93: the whole Vec is built; publish it unless the cell is set
GetOrInit(c) ==
    /\ pc[c] = "load"
    /\ local[c].idx > Len(local[c].paths)
    /\ LET mine == Vec(c, apply_overlap(local[c].acc, config))
       IN  /\ TRANSLATIONS' = get_or_init(TRANSLATIONS, mine)
           /\ inits' = IF TRANSLATIONS' # TRANSLATIONS THEN inits + 1 ELSE inits
           /\ ret' = [ret EXCEPT ![c] = Ok(TRANSLATIONS')]
    /\ pc' = [pc EXCEPT ![c] = "done"]
    /\ local' = [local EXCEPT ![c] = NoLocal]
    /\ UNCHANGED <<fs, config, crate, loads, collection, outcome, substVars>>

load_translations(c) == Call(c) \/ ReadFile(c) \/ GetOrInit(c)

(***************************************************************************)
(* Results of a resolution                                                 *)
(***************************************************************************)
\* kind: "Ok" (text), "OkNone" (legacy Ok(None)), "InvalidLanguage" (lang,
\* suggestions), "PathNotFound" (path), "LanguageNotAvailable" (lang, path);
\* phase: "compile" for a CompileTimeError or a literal baked in at macro
\* expansion, "run" for a value of the generated or called code.
Res(kind, phase, lang, path, text, suggestions) ==
    [kind |-> kind, phase |-> phase, lang |-> lang, path |-> path,
     text |-> text, suggestions |-> suggestions]

(***************************************************************************)
(* Legacy resolver: src/src/translations.rs                                *)
(***************************************************************************)
\* toml::Value's Display writes TOML syntax: a string comes out as a quoted
\* basic string, a table as an inline table
RECURSIVE value_to_string(_)
RECURSIVE entries_to_string(_, _)
entries_to_string(table, keys) ==
    IF keys = <<>> THEN <<>>
    ELSE Head(keys) \o <<"=">> \o value_to_string(table[Head(keys)])
         \o (IF Len(keys) > 1 THEN <<",">> ELSE <<>>)
         \o entries_to_string(table, Tail(keys))
value_to_string(value) ==
    CASE value.kind = "String" -> <<"\"">> \o value.s \o <<"\"">>
      [] value.kind = "Table" ->
            <<"{">> \o entries_to_string(value.t, KeySeq(DOMAIN value.t)) \o <<"}">>
      [] OTHER -> <<"0">>

\* path.split('.').try_fold(translation, |acc, key| acc.get(key)?.as_table())
RECURSIVE try_fold(_, _)
try_fold(acc, keys) ==
    IF keys = <<>> THEN [kind |-> "Some", t |-> acc]
    ELSE LET value == get(acc, Head(keys))
         IN  IF value.kind = "None" THEN None
             ELSE LET table == as_table(value)
                  IN  IF table.kind = "None" THEN None
                      ELSE try_fold(table.t, Tail(keys))

\* ... .and_then(|table| table.get(lang))
lookup(translation, path, lang) ==
    LET table == try_fold(translation, split(path))
    IN  IF table.kind = "None" THEN None ELSE get(table.t, lang)

\* the for loop of lines 191-203
RECURSIVE choose_translation(_, _, _, _, _, _)
choose_translation(translations, i, chosen_translation, path, lang, overlap) ==
    IF i > Len(translations) THEN chosen_translation
    ELSE LET value == lookup(translations[i], path, lang)
         IN  IF value.kind # "None"
             THEN IF overlap = "Ignore"
                  THEN [kind |-> "Some", s |-> value_to_string(value)]
                  ELSE choose_translation(translations, i + 1,
                           [kind |-> "Some", s |-> value_to_string(value)],
                           path, lang, overlap)
             ELSE choose_translation(translations, i + 1, chosen_translation,
                                     path, lang, overlap)

\* lines 178-183: the registry codes whose name contains the lowered input
\* (a suggestion is the code; its display name is left out)
similarities(lang) == {l \in Langs : contains(to_lowercase(l), to_lowercase(lang))}

\* load_translation_static of src/src/translations.rs, after load_translations()?
legacy_load_translation_static(translations, cfg, lang, path) ==
    IF ~is_valid(lang)
    THEN Res("InvalidLanguage", "run", lang, <<>>, <<>>, similarities(lang))
    ELSE LET chosen == choose_translation(translations, 1, None, path, lang, cfg.overlap)
         IN  IF chosen.kind = "None"
             THEN Res("OkNone", "run", <<>>, <<>>, <<>>, {})
             ELSE Res("Ok", "run", <<>>, <<>>, chosen.s, {})

(***************************************************************************)
(* Proc resolvers: src/translatable_proc/src/macro_generation/translation.rs *)
(***************************************************************************)
\* Iterator::find_map over the nodes: the first node, in order, that yields the path
find_map(nodes, segments) ==
    LET hits == {i \in 1..Len(nodes) : get_path(nodes[i], segments).kind = "Some"}
    IN  IF hits = {} THEN None
        ELSE get_path(nodes[CHOOSE i \in hits : \A j \in hits : i <= j], segments)

translation_tables(translations) ==
    [i \in 1..Len(translations) |-> translations[i].translation_table]

\* HashMap::get on a translation object
object_get(object, language) ==
    IF language \in DOMAIN object THEN [kind |-> "Some", s |-> object[language]]
    ELSE None

\* load_lang_static: lang.parse::<Language>()
load_lang_static(lang) ==
    IF is_valid(lang) THEN [kind |-> "Some", lang |-> lang]
    ELSE None

\* faulty variant: generated code that never checks the language
load_lang_dynamic_unchecked(lang) ==
    [language |-> to_lowercase(lang), valid_lang |-> TRUE]

\* load_lang_dynamic: the lowered language and valid_lang
load_lang_dynamic(lang) ==
    LET language == to_lowercase(lang)
    IN  [language |-> language, valid_lang |-> \E l \in Langs : l = language]

\* faulty variant: a missing language reported as a missing path
get_ok_or_path_not_found(object, language, path, phase) ==
    LET translation == object_get(object, language)
    IN  IF translation.kind = "None"
        THEN Res("PathNotFound", phase, <<>>, path, <<>>, {})
        ELSE Res("Ok", phase, <<>>, <<>>, translation.s, {})

\* translation.get(language).ok_or(LanguageNotAvailable(language, path))
get_ok_or(object, language, path, phase) ==
    LET translation == object_get(object, language)
    IN  IF translation.kind = "None"
        THEN Res("LanguageNotAvailable", phase, language, path, <<>>, {})
        ELSE Res("Ok", phase, <<>>, <<>>, translation.s, {})

\* load_translation_static: the path is looked up while the macro expands;
\* `dyn` is what load_lang_dynamic's code computes when the language is dynamic
load_translation_static(translations, static_lang, path, dyn) ==
    LET translation_object == find_map(translation_tables(translations), split(path))
    IN  IF translation_object.kind = "None"
        THEN Res("PathNotFound", "compile", <<>>, path, <<>>, {})
        ELSE IF static_lang.kind = "Some"
        THEN get_ok_or(translation_object.object, static_lang.lang, path, "compile")
        ELSE IF dyn.valid_lang
        THEN get_ok_or(translation_object.object, dyn.language, path, "run")
        ELSE Res("InvalidLanguage", "run", dyn.language, <<>>, <<>>, {})

\* load_translation_dynamic: the generated code looks the path up when it runs
load_translation_dynamic(translations, static_lang, path, dyn) ==
    LET translation == find_map(translation_tables(translations), split(path))
    IN  IF static_lang.kind = "Some"
        THEN IF translation.kind = "Some"
             THEN get_ok_or(translation.object, static_lang.lang, path, "run")
             ELSE Res("PathNotFound", "run", <<>>, path, <<>>, {})
        ELSE IF dyn.valid_lang
        THEN IF translation.kind = "Some"
             THEN get_ok_or(translation.object, dyn.language, path, "run")
             ELSE Res("PathNotFound", "run", <<>>, path, <<>>, {})
        ELSE Res("InvalidLanguage", "run", dyn.language, <<>>, <<>>, {})

(***************************************************************************)
(* TranslationNodeCollection: translatable_shared, collection.rs           *)
(***************************************************************************)
\* FromIterator: the pairs are collected into a HashMap, whose iteration order
\* is the hasher's and not the iterator's: `order` is that order, any
\* permutation of the keys
from_iter(pairs) ==
    LET keys == {pairs[i][1] : i \in 1..Len(pairs)}
        last(k) == CHOOSE i \in 1..Len(pairs) :
                       pairs[i][1] = k /\ \A j \in 1..Len(pairs) : pairs[j][1] = k => j <= i
    IN  { [kind |-> "Collection", map |-> [k \in keys |-> pairs[last(k)][2]], order |-> o] :
             o \in Perms(keys) }

\* self.0.values()
values(coll) == [i \in 1..Len(coll.order) |-> coll.map[coll.order[i]]]

\* TranslationNodeCollection::find_path
Collection_find_path(coll, segments) == find_map(values(coll), segments)

(***************************************************************************)
(* The resolver calls.  Each begins with load_translations()?, modelled by *)
(* the steps above; what follows runs on the reference that call returned  *)
(* (ret[c]), or returns its error.                                         *)
(***************************************************************************)
\* the paths a caller may pass
Paths == { KeyA, KeyB, <<"b", ".", "a">>, <<"a", ".", "b">>,
           <<>>, <<"a", ".">>, <<"a", ".", "e", "s">> }

Loaded(c) == pc[c] = "done" /\ ret[c].kind = "Ok"

\* `?` on a failed load_translations: the error is the result of the call
LoadFailed(c) ==
    /\ pc[c] = "done"
    /\ ret[c].kind = "Err"
    /\ outcome' = [api |-> "load", static_lang |-> FALSE, lang |-> <<>>, path |-> <<>>,
                   result |-> Res(ret[c].error, IF crate = "proc" THEN "compile" ELSE "run",
                                  <<>>, ret[c].path, <<>>, {})]
    /\ pc' = [pc EXCEPT ![c] = "returned"]
    /\ UNCHANGED <<fs, config, crate, TRANSLATIONS, local, ret, loads, inits, collection, substVars>>

LegacyResolve(c) ==
    /\ crate = "legacy"
    /\ Loaded(c)
    /\ \E lang \in Codes, path \in Paths :
           outcome' = [api |-> "legacy", static_lang |-> FALSE, lang |-> lang, path |-> path,
                       result |-> legacy_load_translation_static(
                                      ret[c].value.items, config, lang, path)]
    /\ pc' = [pc EXCEPT ![c] = "returned"]
    /\ UNCHANGED <<fs, config, crate, TRANSLATIONS, local, ret, loads, inits, collection, substVars>>

\* translation!(lang, path): a literal language goes through load_lang_static,
\* whose Language is the static_lang argument; any other expression through
\* load_lang_dynamic, and static_lang is None
ProcResolve(c, api) ==
    /\ crate = "proc"
    /\ Loaded(c)
    /\ \E lang \in Codes, path \in Paths, literal \in BOOLEAN :
           LET static_lang == IF literal THEN load_lang_static(lang) ELSE None
               dyn == load_lang_dynamic(lang)
               result ==
                   IF literal /\ static_lang.kind = "None"
                   THEN Res("InvalidLanguage", "compile", lang, <<>>, <<>>, {})
                   ELSE IF api = "static"
                   THEN load_translation_static(ret[c].value.items, static_lang, path, dyn)
                   ELSE load_translation_dynamic(ret[c].value.items, static_lang, path, dyn)
           IN  outcome' = [api |-> api, static_lang |-> literal, lang |-> lang,
                           path |-> path, result |-> result]
    /\ pc' = [pc EXCEPT ![c] = "returned"]
    /\ UNCHANGED <<fs, config, crate, TRANSLATIONS, local, ret, loads, inits, collection, substVars>>

ProcStaticResolve(c) == ProcResolve(c, "static")
ProcDynamicResolve(c) == ProcResolve(c, "dynamic")

\* the loaded nodes, keyed by their file, collected into a collection
Collect(c) ==
    /\ crate = "proc"
    /\ Loaded(c)
    /\ collection = None
    /\ collection' \in from_iter([i \in 1..Len(ret[c].value.items) |->
                                     <<ret[c].value.items[i].original_path,
                                       ret[c].value.items[i].translation_table>>])
    /\ UNCHANGED <<fs, config, crate, TRANSLATIONS, pc, local, ret, loads, inits, outcome, substVars>>

FindPath(c) ==
    /\ Loaded(c)
    /\ collection # None
    /\ \E path \in Paths :
           outcome' = [api |-> "find_path", static_lang |-> FALSE, lang |-> <<>>, path |-> path,
                       result |-> Collection_find_path(collection, split(path))]
    /\ pc' = [pc EXCEPT ![c] = "returned"]
    /\ UNCHANGED <<fs, config, crate, TRANSLATIONS, local, ret, loads, inits, collection, substVars>>

(***************************************************************************)
(* Placeholder substitution: kwarg_static_replaces, kwarg_dynamic_replaces *)
(***************************************************************************)
\* str::replace: every non-overlapping match, left to right
RECURSIVE replace(_, _, _)
replace(s, from, to) ==
    IF Len(s) < Len(from) THEN s
    ELSE IF SubSeq(s, 1, Len(from)) = from
    THEN to \o replace(SubSeq(s, Len(from) + 1, Len(s)), from, to)
    ELSE <<Head(s)>> \o replace(Tail(s), from, to)

SOH == "\\x01"

\* format!("{{{{{}}}}}", key), format!("\x01{{{}}}\x01", key), format!("{{{}}}", key)
escaped(key) == <<"{", "{">> \o key \o <<"}", "}">>
marker(key) == <<SOH, "{">> \o key \o <<"}", SOH>>
placeholder(key) == <<"{">> \o key \o <<"}">>

\* the chain of three replaces generated for one binding
kwarg_static_replaces(s, key, value) ==
    replace(replace(replace(s, escaped(key), marker(key)),
                    placeholder(key), value),
            marker(key), placeholder(key))

\* placeholder names, displayed values and template pieces
Keys == { <<"n">>, <<"m">> }
Values == { <<"A">>, <<"{", "m", "}">> }
Tokens == { <<"{">>, <<"}">>, <<"n">>, <<" ">>,
            <<"{", "n", "}">>, <<"{", "{", "n", "}", "}">>, <<"{", "m", "}">> }

Templates == UNION { {Concat(ts) : ts \in [1..k -> Tokens]} : k \in 0..MaxTokens }
KwargMaps == UNION { [ks -> Values] : ks \in SUBSET Keys }

NoSubstitution ==
    /\ template = <<>>
    /\ format_kwargs = <<>>
    /\ pending = {}
    /\ rendered = <<>>

\* kwarg_dynamic_replaces / static_replaces: one binding's chain is appended
\* per entry of the HashMap, in the order its iterator yields them
ApplyKwarg ==
    /\ \E key \in pending :
           /\ rendered' = kwarg_static_replaces(rendered, key, format_kwargs[key])
           /\ pending' = pending \ {key}
    /\ UNCHANGED <<loaderVars, template, format_kwargs>>

(***************************************************************************)
(* Specification of the loader under concurrent callers                    *)
(***************************************************************************)
\* the state before any call: a directory of files, a configuration, an empty cell
InitWith(contents) ==
    /\ fs \in [FileNames -> contents]
    /\ config \in Configs
    /\ crate \in {"legacy", "proc"}
    /\ TRANSLATIONS = None
    /\ pc = [c \in Callers |-> "idle"]
    /\ local = [c \in Callers |-> NoLocal]
    /\ ret = [c \in Callers |-> None]
    /\ loads = 0
    /\ inits = 0
    /\ collection = None
    /\ outcome = None
    /\ NoSubstitution

\* for the loader, what matters of a file is whether it can be read, parsed and
\* validated
LoaderContents ==
    { Unreadable,
      Garbage,
      Toml(T1(KeyA, Tab(T1(es, Str(Hola))))),
      Toml(T1(KeyA, Tab(T2(es, Str(Hola), KeyB, Tab(EmptyTable))))) }

Init == InitWith(LoaderContents)

Next == \E c \in Callers : load_translations(c)

Spec == Init /\ [][Next]_vars

(***************************************************************************)
(* Specification of the resolvers: one caller loads, then queries follow   *)
(***************************************************************************)
NextResolve ==
    \/ load_translations(1)
    \/ LoadFailed(1)
    \/ LegacyResolve(1)
    \/ ProcStaticResolve(1)
    \/ ProcDynamicResolve(1)
    \/ Collect(1)
    \/ FindPath(1)

InitResolve == InitWith(FileContents)

SpecResolve == InitResolve /\ [][NextResolve]_vars

(***************************************************************************)
(* What the files say, read off the directory itself                       *)
(***************************************************************************)
\* the file names in seek order (the sort makes read_dir's order irrelevant)
SeekOrder == seek_order(CHOOSE walked \in walk_dir : TRUE, config)

\* the raw value a file holds at a path: a table, or None
RECURSIVE RawAt(_, _)
RawAt(table, segments) ==
    IF segments = <<>> THEN Tab(table)
    ELSE IF Head(segments) \in DOMAIN table /\ table[Head(segments)].kind = "Table"
         THEN RawAt(table[Head(segments)].t, Tail(segments))
         ELSE None

\* file f holds a translation object (a table of language strings) at path p
HasObject(f, p) ==
    /\ fs[f].kind = "toml"
    /\ LET n == RawAt(fs[f].table, split(p))
       IN  /\ n.kind = "Table"
           /\ DOMAIN n.t # {}
           /\ \A k \in DOMAIN n.t : n.t[k].kind = "String"

\* file f defines path p with language l
Defines(f, p, l) == HasObject(f, p) /\ l \in DOMAIN RawAt(fs[f].table, split(p)).t

\* the template file f stores for (p, l)
Stored(f, p, l) == RawAt(fs[f].table, split(p)).t[l].s

Defining(p, l) == {i \in 1..Len(SeekOrder) : Defines(SeekOrder[i], p, l)}
Holding(p) == {i \in 1..Len(SeekOrder) : HasObject(SeekOrder[i], p)}

Max(S) == CHOOSE i \in S : \A j \in S : j <= i
Min(S) == CHOOSE i \in S : \A j \in S : i <= j

\* a resolver call has returned in this state
Resolved == pc[1] = "returned" /\ outcome.api \in {"legacy", "static", "dynamic"}
ProcResolved == pc[1] = "returned" /\ outcome.api \in {"static", "dynamic"}

(***************************************************************************)
(* C1: under the Overwrite policy, resolving (l, p) returns the template   *)
(* stored by the last file in seek order among the files that define p     *)
(* with language l.                                                        *)
(***************************************************************************)
C1_OverwriteLastDefiningWins ==
    (Resolved /\ config.overlap = "Overwrite" /\ is_valid(outcome.lang)
        /\ Defining(outcome.path, outcome.lang) # {})
    => /\ outcome.result.kind = "Ok"
       /\ outcome.result.text =
              Stored(SeekOrder[Max(Defining(outcome.path, outcome.lang))],
                     outcome.path, outcome.lang)

(***************************************************************************)
(* C2: under the Ignore policy, resolving (l, p) returns the template      *)
(* stored by the first file in seek order among the files that define p    *)
(* with language l; earlier files that do not define it are skipped.       *)
(***************************************************************************)
C2_IgnoreFirstDefiningWins ==
    (Resolved /\ config.overlap = "Ignore" /\ is_valid(outcome.lang)
        /\ Defining(outcome.path, outcome.lang) # {})
    => /\ outcome.result.kind = "Ok"
       /\ outcome.result.text =
              Stored(SeekOrder[Min(Defining(outcome.path, outcome.lang))],
                     outcome.path, outcome.lang)

(***************************************************************************)
(* C3: TranslationNodeCollection::find_path searches the nodes in the      *)
(* order the Loader produced and returns the object of the first node, in  *)
(* that order, that yields the path.                                       *)
(***************************************************************************)
C3_FindPathFollowsLoaderOrder ==
    (pc[1] = "returned" /\ outcome.api = "find_path")
    => outcome.result =
           find_map(translation_tables(ret[1].value.items), split(outcome.path))

(***************************************************************************)
(* C7: for a language code that is not registry-valid, and any path,       *)
(* resolve fails with InvalidLanguage (never PathNotFound,                 *)
(* LanguageNotAvailable or a translation), and every suggestion it carries *)
(* is registry-valid.                                                      *)
(***************************************************************************)
C7_InvalidLanguageFirst ==
    (Resolved /\ ~is_valid(outcome.lang))
    => /\ outcome.result.kind = "InvalidLanguage"
       /\ \A sug \in outcome.result.suggestions : is_valid(sug)

\* C7 as amended: the language check comes first wherever language and path
\* are examined at the same stage; only a static path with a dynamic language
\* is looked up (at macro expansion) before the language is known, and fails
\* there with PathNotFound when it is absent.
C7_InvalidLanguageFirstAmended ==
    (Resolved /\ ~is_valid(outcome.lang))
    => LET expansion == /\ outcome.api = "static"
                        /\ ~outcome.static_lang
                        /\ Holding(outcome.path) = {}
       IN  IF expansion
           THEN /\ outcome.result.kind = "PathNotFound"
                /\ outcome.result.phase = "compile"
                /\ outcome.result.path = outcome.path
           ELSE /\ outcome.result.kind = "InvalidLanguage"
                /\ outcome.result.lang = outcome.lang
                /\ \A sug \in outcome.result.suggestions : is_valid(sug)

\* an invalid language met a path that exists, and suggestions were made
C7_Witness ==
    /\ Resolved
    /\ ~is_valid(outcome.lang)
    /\ Holding(outcome.path) # {}
    /\ outcome.result.kind = "InvalidLanguage"
    /\ outcome.result.suggestions # {}

(***************************************************************************)
(* C8: for a valid language and a path absent from every loaded file,      *)
(* resolve fails with PathNotFound(path), an outcome distinct from that of *)
(* a path that exists but lacks the language.                              *)
(***************************************************************************)
C8_AbsentPathIsPathNotFound ==
    (Resolved /\ is_valid(outcome.lang))
    => /\ Holding(outcome.path) = {}
          => (outcome.result.kind = "PathNotFound" /\ outcome.result.path = outcome.path)
       /\ Holding(outcome.path) # {} => outcome.result.kind # "PathNotFound"

(***************************************************************************)
(* C9: for a valid language l and a path p, the proc resolvers fail with   *)
(* LanguageNotAvailable(l, p) exactly when the translation object the path *)
(* search returns (that of the first loaded file, in the cached order,     *)
(* holding an object at p) has no value for l.                             *)
(***************************************************************************)
\* the files of the cached Vec, in its order, that hold an object at p
CachedHolding(p) ==
    {i \in 1..Len(ret[1].value.items) : HasObject(ret[1].value.items[i].original_path, p)}

SearchedFile(p) == ret[1].value.items[Min(CachedHolding(p))].original_path

RECURSIVE WellFormed(_)
WellFormed(table) ==
    /\ \A k \in DOMAIN table : table[k].kind \in {"Table", "String"}
    /\ ~(\E j, k \in DOMAIN table : table[j].kind = "Table" /\ table[k].kind = "String")
    /\ \A k \in DOMAIN table :
          IF table[k].kind = "Table" THEN WellFormed(table[k].t)
          ELSE k \in Langs /\ balance(table[k].s) = 0

\* file f cannot be loaded: unreadable, not TOML, or not a well-formed table
Bad(f) == fs[f].kind # "toml" \/ ~WellFormed(fs[f].table)

\* the error a load reports for a bad file
ErrorOf(f) ==
    Err(CASE fs[f].kind = "unreadable" -> "Io"
          [] fs[f].kind = "garbage" -> "ParseToml"
          [] OTHER -> "InvalidTomlFormat", f)

\* the Vec items a complete load of the directory builds
FullLoad == apply_overlap([i \in 1..Len(SeekOrder) |-> load_file(SeekOrder[i]).value], config)

Returned(c) == pc[c] = "done"
ReturnedOk(c) == Returned(c) /\ ret[c].kind = "Ok"
ReturnedErr(c) == Returned(c) /\ ret[c].kind = "Err"

\* caller c leaves "idle" in this step: its call to load_translations begins
Begins(c) == pc[c] = "idle" /\ pc'[c] # "idle"

(***************************************************************************)
(* C4: when several callers run load_translations before the cache is      *)
(* populated, exactly one computed collection is stored, every caller that *)
(* returns Ok returns a reference to that stored collection, and the       *)
(* stored collection is fully built.                                       *)
(***************************************************************************)
C4_OneStoredCollectionForAll ==
    /\ inits <= 1
    /\ (TRANSLATIONS # None) <=> (inits = 1)
    /\ \A c \in Callers : ReturnedOk(c) => (TRANSLATIONS # None /\ ret[c].value = TRANSLATIONS)
    /\ TRANSLATIONS # None
       => /\ \A f \in DOMAIN fs : ~Bad(f)
          /\ TRANSLATIONS.items = FullLoad

\* two callers both did the load work, and one of them returned the Vec the
\* other one built
C4_Witness ==
    /\ loads >= 2
    /\ \A c \in Callers : ReturnedOk(c)
    /\ \E c \in Callers : ret[c].value.owner # c

(***************************************************************************)
(* C5: for any interleaving of load_translations calls, the load work      *)
(* (directory walk, read, parse, validation) is performed at most once.    *)
(***************************************************************************)
C5_LoadWorkAtMostOnce == loads <= 1

\* C5 as amended: the cell is written at most once, and a call that begins
\* once the cell is populated returns the cached Vec at once, without load
\* work; calls that begin while it is empty each do the work.
C5_NoLoadWorkOnceCached ==
    [][ /\ TRANSLATIONS # None => TRANSLATIONS' = TRANSLATIONS
        /\ \A c \in Callers :
              Begins(c) =>
                  IF TRANSLATIONS # None
                  THEN /\ loads' = loads
                       /\ pc'[c] = "done"
                       /\ ret'[c] = Ok(TRANSLATIONS)
                  ELSE /\ loads' = loads + 1
                       /\ pc'[c] = "load" ]_vars

\* one call did the work and stored its Vec; every other call began later and
\* returned it
C5_Witness ==
    /\ loads = 1
    /\ \A c \in Callers : ReturnedOk(c)

(***************************************************************************)
(* C6: a load that fails fails as a whole (nothing is cached, not even the *)
(* valid files), and a later call does not re-attempt the load.            *)
(***************************************************************************)
C6_FailedLoadIsNotRetried ==
    [][ (\E c \in Callers : ReturnedErr(c)) => loads' = loads ]_vars

\* C6 as amended: a failing load caches nothing and reports the first bad
\* file in seek order; the failure itself is not cached, so every later call
\* finds the cell empty and does the load work again.
C6_FailedLoadCachesNothing ==
    /\ [](/\ (\E f \in DOMAIN fs : Bad(f)) => TRANSLATIONS = None
          /\ \A c \in Callers :
                ReturnedErr(c)
                => /\ TRANSLATIONS = None
                   /\ LET bad == {i \in 1..Len(SeekOrder) : Bad(SeekOrder[i])}
                      IN  /\ bad # {}
                          /\ ret[c] = ErrorOf(SeekOrder[Min(bad)]))
    /\ [][ \A c \in Callers :
              (Begins(c) /\ \E d \in Callers : ReturnedErr(d))
              => (loads' = loads + 1 /\ pc'[c] = "load") ]_vars

\* a call failed, another call made after it did the work again and failed too
C6_Witness ==
    /\ loads = NumCallers
    /\ \A c \in Callers : ReturnedErr(c)
    /\ \E f \in DOMAIN fs : ~Bad(f)

(***************************************************************************)
(* Specification of the substitution: a template and its bindings are      *)
(* given, and the bindings are applied one after the other                 *)
(***************************************************************************)
InitSubst ==
    /\ fs = [f \in FileNames |-> Toml(EmptyTable)]
    /\ config = [seek_mode |-> "Alphabetical", overlap |-> "Overwrite"]
    /\ crate = "proc"
    /\ TRANSLATIONS = None
    /\ pc = [c \in Callers |-> "idle"]
    /\ local = [c \in Callers |-> NoLocal]
    /\ ret = [c \in Callers |-> None]
    /\ loads = 0
    /\ inits = 0
    /\ collection = None
    /\ outcome = None
    /\ template \in Templates
    /\ format_kwargs \in KwargMaps
    /\ pending = DOMAIN format_kwargs
    /\ rendered = template

NextSubst == ApplyKwarg

SpecSubst == InitSubst /\ [][NextSubst]_vars

\* what substitution is meant to give for one binding: read left to right, an
\* escaped {{name}} becomes the text {name}, a plain {name} becomes the value
RECURSIVE Substituted(_, _, _)
Substituted(s, name, value) ==
    IF s = <<>> THEN <<>>
    ELSE IF Len(s) >= Len(escaped(name)) /\ SubSeq(s, 1, Len(escaped(name))) = escaped(name)
    THEN placeholder(name)
         \o Substituted(SubSeq(s, Len(escaped(name)) + 1, Len(s)), name, value)
    ELSE IF Len(s) >= Len(placeholder(name))
            /\ SubSeq(s, 1, Len(placeholder(name))) = placeholder(name)
    THEN value \o Substituted(SubSeq(s, Len(placeholder(name)) + 1, Len(s)), name, value)
    ELSE <<Head(s)>> \o Substituted(Tail(s), name, value)

(***************************************************************************)
(* C10: for every template and binding name -> value, substitute replaces  *)
(* each unescaped {name} with the value and turns each escaped {{name}}    *)
(* into the literal text {name}: "{{name}} is {name}" with name = Ann      *)
(* gives "{name} is Ann".                                                  *)
(***************************************************************************)
C10_EscapedStaysPlainIsReplaced ==
    (Cardinality(DOMAIN format_kwargs) = 1 /\ pending = {})
    => LET name == CHOOSE k \in DOMAIN format_kwargs : TRUE
       IN  rendered = Substituted(template, name, format_kwargs[name])

\* the replace chains of the bindings, appended in the order `order` and run on s
RECURSIVE substitute(_, _, _)
substitute(s, bindings, order) ==
    IF order = <<>> THEN s
    ELSE substitute(kwarg_static_replaces(s, Head(order), bindings[Head(order)]),
                    bindings, Tail(order))

(***************************************************************************)
(* C11: for every template and every set of bindings with distinct names,  *)
(* values with brace or placeholder-like text included, the result of the  *)
(* substitution is the same for every order in which the bindings are      *)
(* processed.                                                              *)
(***************************************************************************)
C11_BindingOrderIrrelevant ==
    pending = {}
    => \A order \in Perms(DOMAIN format_kwargs) :
           rendered = substitute(template, format_kwargs, order)

\* s begins with the text pre
starts_with(s, pre) == Len(s) >= Len(pre) /\ SubSeq(s, 1, Len(pre)) = pre

\* the texts a rewrite may put in the place of a {k} or {{k}} token
TokenTexts(k, value) == {value, placeholder(k), marker(k), <<SOH>> \o value \o <<SOH>>}

\* every string that differs from s only where s has a {{k}} or {k} token: read
\* left to right, the tokens are rewritten and every other character is kept
RECURSIVE FrameResults(_, _, _)
FrameResults(s, k, value) ==
    IF s = <<>> THEN {<<>>}
    ELSE IF starts_with(s, escaped(k))
    THEN {r \o t : r \in TokenTexts(k, value),
                   t \in FrameResults(SubSeq(s, Len(escaped(k)) + 1, Len(s)), k, value)}
    ELSE IF starts_with(s, placeholder(k))
    THEN {r \o t : r \in TokenTexts(k, value),
                   t \in FrameResults(SubSeq(s, Len(placeholder(k)) + 1, Len(s)), k, value)}
    ELSE {<<Head(s)>> \o t : t \in FrameResults(Tail(s), k, value)}

\* the replace chain of binding k runs in this step
Rewrites(k) == k \in pending /\ pending' = pending \ {k}

(***************************************************************************)
(* C12: the rewrite for a binding named k changes only the {k} and {{k}}   *)
(* tokens of the string: every other character, placeholders of other      *)
(* names included, stays verbatim; and a binding whose name does not occur *)
(* in the template leaves the string unchanged.                            *)
(***************************************************************************)
C12_RewriteTouchesOnlyItsTokens ==
    [][ \A k \in Keys :
           Rewrites(k)
           => /\ rendered' \in FrameResults(rendered, k, format_kwargs[k])
              /\ ~contains(template, placeholder(k)) => rendered' = rendered ]_vars

(***************************************************************************)
(* Specification of the validation: a directory of files that mix or do    *)
(* not mix tables and strings, at several depths and in both key orders,   *)
(* is loaded by one caller                                                 *)
(***************************************************************************)
KeyX == <<"x">>
Unbalanced == <<"{">>

ValidationContents ==
    { Garbage,
      Toml(EmptyTable),
      Toml(T1(KeyA, Tab(EmptyTable))),
      Toml(T1(KeyA, Tab(T2(es, Str(Hola), en, Str(Hello))))),
      Toml(T1(KeyA, Tab(T1(es, Str(Unbalanced))))),
      Toml(T2(es, Str(Hola), KeyB, Tab(EmptyTable))),
      Toml(T2(es, Str(Hola), KeyX, Tab(EmptyTable))),
      Toml(T1(KeyA, Tab(T2(es, Str(Hola), KeyX, Tab(T1(en, Str(Hello))))))),
      Toml(T1(KeyA, Tab(T1(KeyB, Tab(T2(en, Str(Hello), KeyA, Tab(EmptyTable))))))) }

InitValidate == InitWith(ValidationContents)

NextValidate == load_translations(1)

SpecValidate == InitValidate /\ [][NextValidate]_vars

\* somewhere in the table, at any depth, one key maps to a table and a sibling
\* key maps to a string
RECURSIVE Mixed(_)
Mixed(table) ==
    \/ \E j, k \in DOMAIN table : table[j].kind = "Table" /\ table[k].kind = "String"
    \/ \E k \in DOMAIN table : table[k].kind = "Table" /\ Mixed(table[k].t)

\* the depth of the shallowest table with mixed siblings (1: the file's root)
RECURSIVE MixedDepth(_)
MixedDepth(table) ==
    IF \E j, k \in DOMAIN table : table[j].kind = "Table" /\ table[k].kind = "String"
    THEN 1
    ELSE 1 + Min({MixedDepth(table[k].t) :
                     k \in {x \in DOMAIN table : table[x].kind = "Table" /\ Mixed(table[x].t)}})

\* the files, by their position in seek order, that cannot be loaded
BadFiles == {i \in 1..Len(SeekOrder) : Bad(SeekOrder[i])}

(***************************************************************************)
(* C13: a file holding, at any depth and in any sibling order, a table     *)
(* with a table child and a string child is rejected: its load fails with  *)
(* InvalidTomlFormat naming that file, and no load that returns Ok has     *)
(* read such a file; a directory whose tables are all uniformly tables or  *)
(* uniformly language-keyed strings (empty tables included) is accepted.   *)
(***************************************************************************)
C13_MixedSiblingsRejected ==
    Returned(1)
    => /\ ReturnedOk(1)
          => \A f \in DOMAIN fs : fs[f].kind = "toml" /\ ~Mixed(fs[f].table)
       /\ (BadFiles # {} /\ fs[SeekOrder[Min(BadFiles)]].kind = "toml"
             /\ Mixed(fs[SeekOrder[Min(BadFiles)]].table))
          => ret[1] = Err("InvalidTomlFormat", SeekOrder[Min(BadFiles)])
       /\ (\A f \in DOMAIN fs : fs[f].kind = "toml" /\ WellFormed(fs[f].table))
          => ReturnedOk(1)

\* the legacy loader read a valid file, then rejected the next one for mixed
\* siblings below its root, the string key coming first
C13_Witness ==
    /\ crate = "legacy"
    /\ ReturnedErr(1)
    /\ ret[1].error = "InvalidTomlFormat"
    /\ ret[1].path = SeekOrder[Len(SeekOrder)]
    /\ Len(SeekOrder) > 1
    /\ Mixed(fs[ret[1].path].table)
    /\ MixedDepth(fs[ret[1].path].table) > 1
    /\ KeyX \in DOMAIN fs[ret[1].path].table[KeyA].t

(***************************************************************************)
(* Specification of the path walk: files whose tables end on a translation *)
(* object, go on below the requested path, or hold a table named like a    *)
(* language, are loaded and queried                                        *)
(***************************************************************************)
WalkContents ==
    { Garbage,
      Toml(EmptyTable),
      Toml(T1(KeyA, Tab(T1(es, Str(Hola))))),
      Toml(T1(KeyA, Tab(T1(en, Tab(T1(es, Str(Hola))))))),
      Toml(T1(KeyB, Tab(T1(KeyA, Tab(T1(en, Str(Deep))))))) }

InitWalk == InitWith(WalkContents)

SpecWalk == InitWalk /\ [][NextResolve]_vars

\* a resolver or find_path call has returned, and it yielded a translation
Yielded ==
    /\ pc[1] = "returned"
    /\ \/ outcome.api \in {"legacy", "static", "dynamic"} /\ outcome.result.kind = "Ok"
       \/ outcome.api = "find_path" /\ outcome.result.kind = "Some"

(***************************************************************************)
(* C14: the path walk yields a translation only when the full segment      *)
(* sequence ends exactly on a translation object of some file: never for   *)
(* an absent, empty or over-long path, and never on a namespace, even one  *)
(* with a child named like the requested language.                         *)
(***************************************************************************)
C14_WalkEndsOnLeaf ==
    Yielded
    => /\ Holding(outcome.path) # {}
       /\ outcome.api # "find_path" => Defining(outcome.path, outcome.lang) # {}

====
